---- MODULE Spec2Model ----
(***************************************************************************)
(* GitHunt: date-windowed pagination of the GitHub search API.             *)
(*                                                                         *)
(* A JavaScript Date is an instant.  It is modelled as the record          *)
(* [day, ms]: the UTC day number (day 0 is 1 January 1970) and the         *)
(* millisecond of that UTC day.  The date-fns helpers read and write the   *)
(* LOCAL calendar fields of a Date, so each of them takes the client's     *)
(* UTC offset tz (minutes east of UTC) as a parameter.                     *)
(***************************************************************************)
EXTENDS Integers, Sequences, FiniteSets, TLC

\* ------------------------------------------------------------- bounds
MaxOffset == 3
MaxRequests == 4
MaxBookmarks == 4
MaxToasts == 5
MaxStarSteps == 120
MaxNoteLength == 2

\* ------------------------------------------------------------ calendar
MsPerMinute == 60 * 1000
MsPerDay == 24 * 60 * MsPerMinute

\* Floor division and modulus that also work below zero.
FloorDiv(a, b) == IF a >= 0 THEN a \div b ELSE -((-a + b - 1) \div b)
FloorMod(a, b) == a - b * FloorDiv(a, b)

IsLeap(y) == (y % 4 = 0 /\ y % 100 # 0) \/ y % 400 = 0

DaysInMonth(y, m) ==
  IF m = 2 THEN (IF IsLeap(y) THEN 29 ELSE 28)
  ELSE IF m \in {4, 6, 9, 11} THEN 30 ELSE 31

\* Day number of the civil date y-m-d: days since 1970-01-01 in the
\* Gregorian calendar.  The year is counted from March (yy), in eras of 400
\* years; yoe is the year of the era, doy the day of the year from 1 March.
DayOfEra(yoe, doy) == yoe * 365 + yoe \div 4 - yoe \div 100 + doy
DayOfMarchYear(yy, doy) ==
  FloorDiv(yy, 400) * 146097 + DayOfEra(FloorMod(yy, 400), doy) - 719468
DayNum(y, m, d) ==
  DayOfMarchYear(IF m <= 2 THEN y - 1 ELSE y,
                 (153 * (IF m > 2 THEN m - 3 ELSE m + 9) + 2) \div 5 + (d - 1))

\* Civil date of a day number: the inverse of DayNum.  mp is the month
\* counted from March, doe the day of the era.
CivilOfMonthPart(y, doy, mp) ==
  [y |-> y + (IF mp >= 10 THEN 1 ELSE 0),
   m |-> IF mp < 10 THEN mp + 3 ELSE mp - 9,
   d |-> doy - (153 * mp + 2) \div 5 + 1]
CivilOfYearDay(y, doy) == CivilOfMonthPart(y, doy, (5 * doy + 2) \div 153)
CivilOfEraYear(era, doe, yoe) ==
  CivilOfYearDay(yoe + era * 400, doe - (365 * yoe + yoe \div 4 - yoe \div 100))
CivilOfEraDay(era, doe) ==
  CivilOfEraYear(era, doe,
                 (doe - doe \div 1460 + doe \div 36524 - doe \div 146096) \div 365)
CivilOfDay(n) ==
  CivilOfEraDay(FloorDiv(n + 719468, 146097), FloorMod(n + 719468, 146097))

\* An instant shifted by a number of milliseconds.
PlusMs(t, delta) ==
  [day |-> t.day + FloorDiv(t.ms + delta, MsPerDay),
   ms  |-> FloorMod(t.ms + delta, MsPerDay)]

\* Order of instants.
Before(a, b) == a.day < b.day \/ (a.day = b.day /\ a.ms < b.ms)
AtOrBefore(a, b) == a = b \/ Before(a, b)

\* The local calendar fields Date's getters return, and the Date that the
\* setters build from local fields.
WithMs(c, ms) == [y |-> c.y, m |-> c.m, d |-> c.d, ms |-> ms]
FieldsOf(w) == WithMs(CivilOfDay(w.day), w.ms)
LocalFields(t, tz) == FieldsOf(PlusMs(t, tz * MsPerMinute))

FromLocalFields(y, m, d, ms, tz) ==
  PlusMs([day |-> DayNum(y, m, 1) + (d - 1), ms |-> ms], -(tz * MsPerMinute))

\* ------------------------------------------------------------ date-fns
\* addDays: setDate(getDate() + amount) on the local fields.
AddDaysTo(f, amount, tz) == FromLocalFields(f.y, f.m, f.d + amount, f.ms, tz)
addDays(t, amount, tz) == AddDaysTo(LocalFields(t, tz), amount, tz)

subDays(t, amount, tz) == addDays(t, -amount, tz)

\* subWeeks is addWeeks(-amount), which is addDays(7 * -amount).
subWeeks(t, amount, tz) == addDays(t, -(amount * 7), tz)

\* addMonths: the day of the month is kept unless the target month is
\* shorter, and then the last day of the target month is taken.
ClampedDay(f, ty, tm, tz) ==
  FromLocalFields(ty, tm,
                  IF f.d >= DaysInMonth(ty, tm) THEN DaysInMonth(ty, tm) ELSE f.d,
                  f.ms, tz)
SetMonthIndex(f, idx, tz) == ClampedDay(f, FloorDiv(idx, 12), FloorMod(idx, 12) + 1, tz)
AddMonthsTo(f, amount, tz) == SetMonthIndex(f, (f.y * 12 + (f.m - 1)) + amount, tz)
addMonths(t, amount, tz) == AddMonthsTo(LocalFields(t, tz), amount, tz)

\* A subMonths that goes forward in time.
subMonthsForward(t, amount, tz) == addMonths(t, amount, tz)

subMonths(t, amount, tz) == addMonths(t, -amount, tz)

\* startOfDay: setHours(0, 0, 0, 0); endOfDay: setHours(23, 59, 59, 999).
setHours(f, ms, tz) == FromLocalFields(f.y, f.m, f.d, ms, tz)
startOfDay(t, tz) == setHours(LocalFields(t, tz), 0, tz)
\* An endOfDay that returns the midnight that follows.
endOfDayAtNextMidnight(t, tz) == setHours(LocalFields(t, tz), MsPerDay, tz)

endOfDay(t, tz) == setHours(LocalFields(t, tz), MsPerDay - 1, tz)

\* ------------------------------------------------------------- api.ts
DateJumps == {"day", "week", "month"}

\* getDateRange(dateJump, offset), with the `new Date()` it reads and the
\* client's time zone made explicit.
getDateRange(dateJump, offset, now, tz) ==
  CASE dateJump = "day" ->
         [start |-> startOfDay(subDays(now, offset, tz), tz),
          end   |-> endOfDay(subDays(now, offset, tz), tz)]
    [] dateJump = "week" ->
         [start |-> startOfDay(subWeeks(now, offset + 1, tz), tz),
          end   |-> endOfDay(subWeeks(now, offset, tz), tz)]
    [] dateJump = "month" ->
         [start |-> startOfDay(subMonths(now, offset + 1, tz), tz),
          end   |-> endOfDay(subMonths(now, offset, tz), tz)]

\* Clock fields of a millisecond of the day.
ClockOf(ms) ==
  [h  |-> ms \div (60 * MsPerMinute),
   mi |-> (ms \div MsPerMinute) % 60,
   s  |-> (ms \div 1000) % 60,
   ms |-> ms % 1000]

\* format(date, "yyyy-MM-dd'T'HH:mm:ss'Z'"): the LOCAL fields of the date to
\* the second, followed by a literal Z.
StampOf(f, c) == <<f.y, f.m, f.d, c.h, c.mi, c.s, "Z">>
FormatFields(f) == StampOf(f, ClockOf(f.ms))
FormatStamp(t, tz) == FormatFields(LocalFields(t, tz))

\* formatDateRange: created:<start>..<end>
formatDateRange(dateRange, tz) ==
  <<"created:", FormatStamp(dateRange.start, tz), "..", FormatStamp(dateRange.end, tz)>>

\* Search parameters whose q names a language when none is selected.
SearchParamsAlwaysLanguage(language, dateRange, tz) ==
  [q        |-> <<"language:", language, " ">> \o formatDateRange(dateRange, tz),
   sort     |-> "stars",
   order    |-> "desc",
   per_page |-> "25"]

\* The search parameters fetchRepositories puts on the URL.
SearchParams(language, dateRange, tz) ==
  [q        |-> (IF language # "" THEN <<"language:", language, " ">> ELSE <<>>)
                  \o formatDateRange(dateRange, tz),
   sort     |-> "stars",
   order    |-> "desc",
   per_page |-> "25"]

\* formatDateRangeLabel: format(start, 'MMMM d, yyyy') for the day cadence,
\* format(start, 'MMM d') - format(end, 'MMM d, yyyy') for the others; format
\* prints the LOCAL fields.
\* A label is the sequence of its parts: the dates, each with the pattern it
\* was formatted by, and the text between them.
RangeSeparator == [pattern |-> " - "]
DayLabel(f) == << [pattern |-> "MMMM d, yyyy", m |-> f.m, d |-> f.d, y |-> f.y] >>
RangeLabel(f, g) ==
  << [pattern |-> "MMM d", m |-> f.m, d |-> f.d],
     RangeSeparator,
     [pattern |-> "MMM d, yyyy", m |-> g.m, d |-> g.d, y |-> g.y] >>
\* A formatDateRangeLabel whose one-date branch is taken for the week cadence.
formatDateRangeLabelWeekAsDay(dateRange, jump, tz) ==
  IF jump = "week"
    THEN DayLabel(LocalFields(dateRange.start, tz))
    ELSE RangeLabel(LocalFields(dateRange.start, tz), LocalFields(dateRange.end, tz))

formatDateRangeLabel(dateRange, jump, tz) ==
  IF jump = "day"
    THEN DayLabel(LocalFields(dateRange.start, tz))
    ELSE RangeLabel(LocalFields(dateRange.start, tz), LocalFields(dateRange.end, tz))

\* The bodies a non-success response can carry: JSON objects with or without
\* a message, or a body response.json() rejects.
NoMessage == "<no message>"
Unparsable == "<unparsable>"
ErrorBodies ==
  { [kind |-> "json", message |-> "Validation Failed"],
    [kind |-> "json", message |-> "Not Found"],
    [kind |-> "json", message |-> "API rate limit exceeded"],
    [kind |-> "json", message |-> ""],
    [kind |-> "json", message |-> NoMessage],
    [kind |-> Unparsable, message |-> NoMessage] }
ErrorStatuses == {400, 401, 403, 404, 422, 429, 500, 502, 503}
\* The failure the feed's upstream answers with.
FeedErrors == { <<422, [kind |-> "json", message |-> "Validation Failed"]>> }

\* response.json().catch(() => ({})): the parsed body, or {} when parsing fails.
ParsedBody(body) ==
  IF body.kind = Unparsable THEN [kind |-> "json", message |-> NoMessage] ELSE body

\* error.message || `GitHub API error: ${response.status}`: a missing and an
\* empty message are both falsy.
ErrorMessageDropsEmptyCheck(status, body) ==
  LET error == ParsedBody(body)
  IN IF error.message # NoMessage
       THEN <<error.message>>
       ELSE <<"GitHub API error: ", status>>

ErrorMessage(status, body) ==
  LET error == ParsedBody(body)
  IN IF error.message # NoMessage /\ error.message # ""
       THEN <<error.message>>
       ELSE <<"GitHub API error: ", status>>

\* Response.ok: the status is in the range 200-299.
ResponseOk(response) == response.status >= 200 /\ response.status <= 299

\* What fetchRepositories settles with for an upstream response.
fetchRepositories(response) ==
  IF ~ResponseOk(response)
    THEN [threw |-> TRUE, message |-> ErrorMessage(response.status, response.body),
          items |-> <<>>]
    ELSE [threw |-> FALSE, message |-> <<>>, items |-> response.items]

\* Date.prototype.toISOString: the UTC fields, to the millisecond.
ISOOf(c, k) == <<c.y, c.m, c.d, k.h, k.mi, k.s, k.ms, "Z">>
toISOString(t) == ISOOf(CivilOfDay(t.day), ClockOf(t.ms))

\* new Date(isoString)
ParseISO(iso) ==
  [day |-> DayNum(iso[1], iso[2], iso[3]),
   ms  |-> ((iso[4] * 60 + iso[5]) * 60 + iso[6]) * 1000 + iso[7]]

\* ------------------------------------------------- useRepositories, Feed
VARIABLES
  route,       \* the route shown: "/" is the feed, "/rss" the RSS page
  tz,          \* the client's UTC offset, in minutes
  now,         \* what `new Date()` returns
  clockSteps,  \* how many of the session's moments have passed
  language,    \* usePreferences().language
  dateJump,    \* usePreferences().dateJump
  queries,     \* the query cache: one infinite query per [language, dateJump]
  requests,    \* the upstream calls a query is awaiting
  cancelled,   \* the upstream calls still running that no query awaits:
               \* <<key, offset>> of each
  issued,      \* how many upstream calls have been made
  settled,     \* the key, not the selected one, whose pages the last step
               \* wrote; NoKey when it wrote none
  calc         \* the last call of a function on its own (SpecWindow, SpecFetch)

\* The stores and the component state besides the feed's query.
VARIABLES
  languages,        \* usePreferences().languages
  focusedIndex,     \* Feed: the keyboard focus index
  selectedRepo,     \* Feed: the repository the preview modal shows, or NoRepo
  mobileSheetOpen,  \* FilterBar: the mobile bottom sheet is open
  bodyOverflow,     \* document.body.style.overflow
  activeTab,        \* RepositoryModal: the tab shown
  showNoteInput,    \* RepositoryModal: the note textarea is shown
  noteText,         \* RepositoryModal: the text of the note textarea
  noteFocused,      \* the note textarea has the keyboard focus
  effects,          \* what the modal did outside the page: "window.open",
                    \* "clipboard"
  toasts,           \* ToastProvider: the toast list, the ids in order
  timers,           \* the pending 3-second timers, in the order they were set
  toastSeq,         \* how many toasts have been added
  bookmarks,        \* useBookmarks().bookmarks: the repositories' ids in order
  bookmarkedIds,    \* useBookmarks().bookmarkedIds
  notes,            \* useBookmarks().notes: repository id -> note
  storage           \* what the persist middleware has written for useBookmarks

feedVars == <<route, tz, now, clockSteps, language, dateJump, queries, requests,
              cancelled, issued, settled, calc>>
keyVars == <<focusedIndex, selectedRepo, mobileSheetOpen, bodyOverflow>>
modalVars == <<activeTab, showNoteInput, noteText, noteFocused, effects>>
toastVars == <<toasts, timers, toastSeq>>
markVars == <<bookmarks, bookmarkedIds, notes, storage>>
uiVars == <<languages, keyVars, modalVars, toastVars, markVars>>
vars == <<feedVars, uiVars>>

NoKey == <<>>

Languages == {"", "Rust"}
\* The cadences the feed's selector is switched between; the windows of the
\* month cadence are computed under SpecWindow.
FeedDateJumps == {"day", "week"}
Keys == Languages \X FeedDateJumps
TimeZones == {-300}
ItemLists == {<<>>, <<2, 1>>}
\* The item list the upstream answers the feed's calls with.
FeedItemLists == {<<2, 1>>}

staleTime == 5 * 60 * 1000

Midnight(y, m, d) == [day |-> DayNum(y, m, d), ms |-> 0]
\* The moments the clock is read at: the session starts three minutes before
\* the local midnight that ends a month's last day, and goes on past it.
SessionStart == PlusMs(Midnight(2024, 4, 1), 5 * 60 * MsPerMinute - 3 * MsPerMinute)
Moments == <<SessionStart, PlusMs(SessionStart, staleTime)>>

\* A query holds its pages (data.pages), its status and error, when its data
\* was last written, and the fetch it is running: the direction ("forward"
\* for fetchNextPage, "all" for a fetch of every page from the first), the
\* pages that fetch has collected and how many it is to collect.  log and
\* accLog record, page by page, how each page was requested and what the
\* upstream returned for it.
\* The rest is bookkeeping for the properties: the pages held when the fetch
\* started (before) and the offset of the call that failed last
\* (failedOffset, -1 for none).
NoFetch == [dir |-> "idle", acc |-> <<>>, accLog |-> <<>>, want |-> 0, before |-> <<>>]
EmptyQuery ==
  [pages |-> <<>>, log |-> <<>>, status |-> "pending", fetch |-> NoFetch,
   error |-> <<>>, updatedAt |-> [day |-> 0, ms |-> 0],
   failedOffset |-> -1]

\* One cache entry for all filters: the key leaves the filter out.
queryKeyWithoutFilter(lang, jump) == <<"", "week">>

\* queryKey: ['repositories', language, dateJump]
queryKey(lang, jump) == <<lang, jump>>

CurrentKey == queryKey(language, dateJump)
CurrentQuery == queries[CurrentKey]

\* What useInfiniteQuery reports for a query.
HasData(q) == q.pages # <<>>
IsFetching(q) == q.fetch.dir # "idle"
\* A next-page parameter counted from one instead of from zero.
getNextPageParamFromOne(allPages) == Len(allPages) + 1

\* What getNextPageParam returns to say that there is no next page
\* (undefined or null).
NoNextPage == -1

\* A getNextPageParam that ends the sequence after a page without
\* repositories.
getNextPageParamStoppingOnEmpty(allPages) ==
  IF allPages[Len(allPages)].repositories = <<>> THEN NoNextPage ELSE Len(allPages)

\* getNextPageParam: (_lastPage, allPages) => allPages.length
getNextPageParam(allPages) == Len(allPages)
\* hasNextPage: there are pages and getNextPageParam names a next one.
hasNextPage(q) == HasData(q) /\ getNextPageParam(q.pages) # NoNextPage
isFetchingNextPage(q) == q.fetch.dir = "forward"
isError(q) == q.status = "error"
isLoading(q) == q.status = "pending" /\ IsFetching(q)
IsStale(q, t) == ~HasData(q) \/ AtOrBefore(PlusMs(q.updatedAt, staleTime), t)

Max(a, b) == IF a >= b THEN a ELSE b

\* queryFn, up to its await: the window for pageParam and the upstream call.
\* lang and jump are the language and the cadence of the render that passed
\* this queryFn; key is the query the call belongs to.
UpstreamCall(key, lang, jump, pageParam, dateRange, t, z) ==
  [key       |-> key,
   language  |-> lang,
   dateJump  |-> jump,
   offset    |-> pageParam,
   dateRange |-> dateRange,
   params    |-> SearchParams(lang, dateRange, z),
   at        |-> t]
queryFnCall(key, lang, jump, pageParam, t, z) ==
  UpstreamCall(key, lang, jump, pageParam, getDateRange(jump, pageParam, t, z), t, z)

\* queryFn, after its await: the RepositoryGroup it returns.
queryFnResult(dateRange, items) ==
  [start        |-> toISOString(dateRange.start),
   end          |-> toISOString(dateRange.end),
   repositories |-> items]

\* How a page was requested, and what came back for it and when.
LogEntry(r, items) ==
  [language |-> r.language, dateJump |-> r.dateJump, offset |-> r.offset,
   at |-> r.at, dateRange |-> r.dateRange, params |-> r.params, items |-> items,
   doneAt |-> now]

\* The fetch a query is running is abandoned (cancelRefetch): the query no
\* longer awaits its upstream call.  queryFn does not pass the abort signal to
\* fetchRepositories, so the call itself goes on until the upstream answers;
\* its answer is dropped.
Awaited(reqs, key) == { r \in reqs : r.key # key }
Abandoned(reqs, key) == { <<r.key, r.offset>> : r \in { x \in reqs : x.key = key } }

\* The upstream calls of query `key` that have not been answered yet.
InFlight(key) ==
  Cardinality({ r \in requests : r.key = key })
    + Cardinality({ c \in cancelled : c[1] = key })

\* Query.fetch: the query starts a fetch in direction dir.
Fetching(q, dir) ==
  [q EXCEPT !.fetch   = [dir |-> dir, acc |-> <<>>, accLog |-> <<>>,
                         want |-> IF dir = "forward" THEN 1 ELSE Max(1, Len(q.pages)),
                         before |-> q.pages],
            !.status  = IF HasData(q) THEN @ ELSE "pending",
            !.error   = IF HasData(q) THEN @ ELSE <<>>]

\* A fetch of all pages that goes on from the pages held.
FirstPageParamContinuing(q, dir) == getNextPageParam(q.pages)

\* The page a fetch in direction dir asks for first.
FirstPageParam(q, dir) ==
  IF dir = "forward" THEN getNextPageParam(q.pages) ELSE 0

\* The cache and the upstream calls after query `key` has started a fetch,
\* any fetch it was running being abandoned.
StartFetch(key, lang, jump, dir) ==
  /\ issued < MaxRequests
  /\ queries' = [queries EXCEPT ![key] = Fetching(@, dir)]
  /\ requests' = Awaited(requests, key)
                   \cup {queryFnCall(key, lang, jump,
                                     FirstPageParam(queries[key], dir), now, tz)}
  /\ cancelled' = cancelled \cup Abandoned(requests, key)
  /\ issued' = issued + 1

\* The observer is pointed at another query (the key changed): it fetches
\* when the query is stale and is not fetching already.
ObserveKey(key, lang, jump) ==
  IF ~IsFetching(queries[key]) /\ IsStale(queries[key], now)
    THEN StartFetch(key, lang, jump, "all")
    ELSE UNCHANGED <<queries, requests, cancelled, issued>>

\* setLanguage / setDateJump from the filter bar, and the render that follows.
SetLanguage(l) ==
  /\ route = "/"
  /\ l # language
  /\ language' = l
  /\ ObserveKey(queryKey(l, dateJump), l, dateJump)
  /\ UNCHANGED uiVars
  /\ UNCHANGED <<route, tz, now, clockSteps, dateJump, calc>>
  /\ settled' = NoKey

SetDateJump(d) ==
  /\ route = "/"
  /\ d # dateJump
  /\ dateJump' = d
  /\ ObserveKey(queryKey(language, d), language, d)
  /\ UNCHANGED uiVars
  /\ UNCHANGED <<route, tz, now, clockSteps, language, calc>>
  /\ settled' = NoKey

\* The router shows another page: the feed or the RSS page is unmounted and
\* the other is mounted, whose useRepositories() observes the query of the
\* current key.
Routes == {"/", "/rss"}
Navigate(to) ==
  /\ to # route
  /\ route' = to
  /\ ObserveKey(CurrentKey, language, dateJump)
  /\ UNCHANGED uiVars
  /\ UNCHANGED <<tz, now, clockSteps, language, dateJump, calc>>
  /\ settled' = NoKey

\* A label that is always in the two-date form.
useFormattedDateLabelOfWeek(group, jump, z) ==
  formatDateRangeLabel([start |-> ParseISO(group.start), end |-> ParseISO(group.end)],
                       "week", z)

\* useFormattedDateLabel: the label of a group under the cadence of the
\* preferences of this render.
useFormattedDateLabel(group, jump, z) ==
  formatDateRangeLabel([start |-> ParseISO(group.start), end |-> ParseISO(group.end)],
                       jump, z)

\* The headers of the groups the feed renders: RepositoryGroupSection gives
\* a group with repositories its label and renders no header for the others.
NoHeader == <<>>
GroupHeaders ==
  [i \in 1 .. Len(CurrentQuery.pages) |->
     IF CurrentQuery.pages[i].repositories = <<>>
       THEN NoHeader
       ELSE useFormattedDateLabel(CurrentQuery.pages[i], dateJump, tz)]

\* The IntersectionObserver callback's condition, entries[0].isIntersecting
\* being true.
ShouldFetchNext(q) == hasNextPage(q) /\ ~isFetchingNextPage(q)

\* The load-more sentinel is reported visible: fetchNextPage().
Intersect ==
  /\ route = "/"
  /\ ShouldFetchNext(CurrentQuery)
  /\ StartFetch(CurrentKey, language, dateJump, "forward")
  /\ UNCHANGED uiVars
  /\ UNCHANGED <<route, tz, now, clockSteps, language, dateJump, calc>>
  /\ settled' = NoKey

\* The retry control of the error message: handleRetry, refetch().
HandleRetry ==
  /\ route = "/"
  /\ isError(CurrentQuery)
  /\ StartFetch(CurrentKey, language, dateJump, "all")
  /\ UNCHANGED uiVars
  /\ UNCHANGED <<route, tz, now, clockSteps, language, dateJump, calc>>
  /\ settled' = NoKey

\* The upstream answers call r with a success status and `items`.
OkResponse(items) == [status |-> 200, body |-> [kind |-> "json", message |-> NoMessage], items |-> items]
\* The upstream answers with a non-success status.
ErrorResponse(status, body) == [status |-> status, body |-> body, items |-> <<>>]

\* The fetch of query q has collected every page it wanted: the 'success'
\* action of the query.  A forward fetch adds its page to the pages held, a
\* fetch of all pages replaces them.
Committed(q, acc, accLog) ==
  [q EXCEPT !.pages        = IF q.fetch.dir = "forward" THEN q.pages \o acc ELSE acc,
            !.log          = IF q.fetch.dir = "forward" THEN q.log \o accLog ELSE accLog,
            !.status       = "success",
            !.error        = <<>>,
            !.updatedAt    = now,
            !.fetch        = NoFetch,
            !.failedOffset = -1]

\* The fetch of query q has failed: the 'error' action of the query.
FailedKeepingCollected(q, message, offset) ==
  [q EXCEPT !.status = "error", !.error = message, !.fetch = NoFetch,
            !.pages = q.fetch.acc, !.log = q.fetch.accLog, !.failedOffset = offset]

Failed(q, message, offset) ==
  [q EXCEPT !.status = "error", !.error = message, !.fetch = NoFetch,
            !.failedOffset = offset]

\* The upstream call r settles with `response`; queryFn resumes after its
\* await.
Resume(r, q, out, acc, accLog) ==
  IF out.threw
    THEN /\ requests' = requests \ {r}
         /\ queries' = [queries EXCEPT ![r.key] = Failed(q, out.message, r.offset)]
         /\ settled' = NoKey
         /\ UNCHANGED issued
  ELSE IF Len(acc) < q.fetch.want
    THEN /\ issued < MaxRequests
         /\ requests' = (requests \ {r})
                          \cup {queryFnCall(r.key, r.language, r.dateJump,
                                            getNextPageParam(acc), now, tz)}
         /\ queries' = [queries EXCEPT ![r.key].fetch.acc = acc,
                                       ![r.key].fetch.accLog = accLog]
         /\ settled' = NoKey
         /\ issued' = issued + 1
  ELSE /\ requests' = requests \ {r}
       /\ queries' = [queries EXCEPT ![r.key] = Committed(q, acc, accLog)]
       /\ settled' = IF r.key # CurrentKey THEN r.key ELSE NoKey
       /\ UNCHANGED issued

Collect(r, q, out) ==
  Resume(r, q, out,
         Append(q.fetch.acc, queryFnResult(r.dateRange, out.items)),
         Append(q.fetch.accLog, LogEntry(r, out.items)))

Settle(r, response) == Collect(r, queries[r.key], fetchRepositories(response))

FetchSucceed(r, items) ==
  /\ r \in requests
  /\ Settle(r, OkResponse(items))
  /\ UNCHANGED uiVars
  /\ UNCHANGED <<route, tz, now, clockSteps, language, dateJump, cancelled, calc>>

FetchFail(r, status, body) ==
  /\ r \in requests
  /\ Settle(r, ErrorResponse(status, body))
  /\ UNCHANGED uiVars
  /\ UNCHANGED <<route, tz, now, clockSteps, language, dateJump, cancelled, calc>>

\* The upstream answers a call whose fetch was abandoned: nothing awaits it.
AbandonedSettle(c) ==
  /\ c \in cancelled
  /\ cancelled' = cancelled \ {c}
  /\ UNCHANGED uiVars
  /\ UNCHANGED <<route, tz, now, clockSteps, language, dateJump, queries, requests,
                 issued, calc>>
  /\ settled' = NoKey

\* Time passes.
AdvanceClock ==
  /\ clockSteps < Len(Moments)
  /\ now' = Moments[clockSteps + 1]
  /\ clockSteps' = clockSteps + 1
  /\ UNCHANGED uiVars
  /\ UNCHANGED <<route, tz, language, dateJump, queries, requests, cancelled, issued,
                 calc>>
  /\ settled' = NoKey

NoCalc == [done |-> FALSE, kind |-> "none"]

\* ---------------------------------------------------------- usePreferences
SetOf(seq) == { seq[i] : i \in DOMAIN seq }
\* array.filter((y) => y !== x)
Without(seq, x) == SelectSeq(seq, LAMBDA y : y # x)

\* The most languages the list takes.
MaxLanguages == 5
Min(a, b) == IF a <= b THEN a ELSE b

\* setLanguages: languages.slice(0, 5)
setLanguages(list) == SubSeq(list, 1, Min(MaxLanguages, Len(list)))

\* A toggleLanguage that adds to a list of five.
toggleLanguageUpToFive(current, l) ==
  IF l \in SetOf(current) THEN Without(current, l)
  ELSE IF Len(current) <= MaxLanguages THEN Append(current, l)
  ELSE current

\* toggleLanguage: a language of the list is filtered out, another one is
\* appended while the list has fewer than five.
toggleLanguage(current, l) ==
  IF l \in SetOf(current) THEN Without(current, l)
  ELSE IF Len(current) < MaxLanguages THEN Append(current, l)
  ELSE current

LanguageNames == {"C", "Go", "Java", "Ruby", "Rust", "Zig"}
\* The lists setLanguages is called with: empty, longer than five, with a
\* language twice.
LanguageLists ==
  { <<>>, <<"C", "Go", "Java", "Ruby", "Rust", "Zig">>, <<"Go", "Zig", "Go">> }

SetLanguages(list) ==
  /\ languages' = setLanguages(list)
  /\ UNCHANGED <<feedVars, keyVars, modalVars, toastVars, markVars>>
ToggleLanguage(l) ==
  /\ languages' = toggleLanguage(languages, l)
  /\ UNCHANGED <<feedVars, keyVars, modalVars, toastVars, markVars>>
ClearLanguages ==
  /\ languages' = <<>>
  /\ UNCHANGED <<feedVars, keyVars, modalVars, toastVars, markVars>>

\* ------------------------------------------------------------ useBookmarks
\* A JavaScript Set is kept as the sequence of its members in insertion
\* order, a Map as the sequence of its <<key, value>> entries.
\* new Set([...set, x])
SetAdd(set, x) == IF x \in SetOf(set) THEN set ELSE Append(set, x)

RECURSIVE NewSet(_)
\* new Set(array): the members of the array, each once, in order.
NewSet(array) ==
  IF array = <<>> THEN <<>>
  ELSE SetAdd(NewSet(SubSeq(array, 1, Len(array) - 1)), array[Len(array)])

MapKeys(map) == { map[i][1] : i \in DOMAIN map }
MapDelete(map, key) == SelectSeq(map, LAMBDA e : e[1] # key)
\* Map.prototype.set: an entry of the key is overwritten in place.
MapSet(map, key, value) ==
  IF key \in MapKeys(map)
    THEN [i \in DOMAIN map |-> IF map[i][1] = key THEN <<key, value>> ELSE map[i]]
    ELSE Append(map, <<key, value>>)

RECURSIVE NewMap(_)
\* new Map(entries)
NewMap(entries) ==
  IF entries = <<>> THEN <<>>
  ELSE MapSet(NewMap(SubSeq(entries, 1, Len(entries) - 1)),
              entries[Len(entries)][1], entries[Len(entries)][2])

\* The state of the store, and its initial value.
Bookmarks == [bookmarks |-> bookmarks, bookmarkedIds |-> bookmarkedIds, notes |-> notes]
NoBookmarks == [bookmarks |-> <<>>, bookmarkedIds |-> <<>>, notes |-> <<>>]

\* partialize: what persist writes; Array.from of a Set or of a Map's entries.
partialize(state) ==
  [bookmarks |-> state.bookmarks, bookmarkedIds |-> state.bookmarkedIds,
   notes |-> state.notes]
\* merge: the store's state from what was persisted.
merge(persisted, current) ==
  [current EXCEPT !.bookmarks = persisted.bookmarks,
                  !.bookmarkedIds = NewSet(persisted.bookmarkedIds),
                  !.notes = NewMap(persisted.notes)]

\* set(...): the store takes the state and persist writes it.
SetBookmarks(state) ==
  /\ bookmarks' = state.bookmarks
  /\ bookmarkedIds' = state.bookmarkedIds
  /\ notes' = state.notes
  /\ storage' = partialize(state)

isBookmarked(state, repoId) == repoId \in SetOf(state.bookmarkedIds)
addBookmark(state, repo) ==
  [state EXCEPT !.bookmarks = <<repo>> \o @, !.bookmarkedIds = SetAdd(@, repo)]
removeBookmark(state, repoId) ==
  [state EXCEPT !.bookmarks = Without(@, repoId),
                !.bookmarkedIds = Without(@, repoId),
                !.notes = MapDelete(@, repoId)]
toggleBookmark(state, repo) ==
  IF isBookmarked(state, repo) THEN removeBookmark(state, repo)
                               ELSE addBookmark(state, repo)

\* String.prototype.trim: the text without its leading and trailing spaces.
RECURSIVE trimStart(_)
trimStart(text) ==
  IF text # <<>> /\ Head(text) = " " THEN trimStart(Tail(text)) ELSE text
RECURSIVE trimEnd(_)
trimEnd(text) ==
  IF text # <<>> /\ text[Len(text)] = " "
    THEN trimEnd(SubSeq(text, 1, Len(text) - 1)) ELSE text
trim(text) == trimEnd(trimStart(text))

\* A setNote that stores whatever it is given.
setNoteUntrimmed(state, repoId, note) ==
  [state EXCEPT !.notes = MapSet(@, repoId, note)]

\* setNote: the note is stored unless it is empty once trimmed; then the
\* repository's note is deleted.
setNote(state, repoId, note) ==
  [state EXCEPT !.notes = IF trim(note) # <<>> THEN MapSet(@, repoId, note)
                                               ELSE MapDelete(@, repoId)]
\* getNote, with '' for undefined (existingNote || '').
getNote(state, repoId) ==
  IF repoId \in MapKeys(state.notes)
    THEN (CHOOSE e \in SetOf(state.notes) : e[1] = repoId)[2]
    ELSE <<>>

\* The calls of the store on their own.
StoreRepos == {1, 2, 3}
AddBookmark(repo) ==
  /\ Len(bookmarks) < MaxBookmarks
  /\ SetBookmarks(addBookmark(Bookmarks, repo))
  /\ UNCHANGED <<feedVars, languages, keyVars, modalVars, toastVars>>
RemoveBookmark(repoId) ==
  /\ SetBookmarks(removeBookmark(Bookmarks, repoId))
  /\ UNCHANGED <<feedVars, languages, keyVars, modalVars, toastVars>>
ToggleBookmark(repo) ==
  /\ isBookmarked(Bookmarks, repo) \/ Len(bookmarks) < MaxBookmarks
  /\ SetBookmarks(toggleBookmark(Bookmarks, repo))
  /\ UNCHANGED <<feedVars, languages, keyVars, modalVars, toastVars>>
\* The page is loaded again: the store is created and hydrated from what
\* persist wrote.
Rehydrate ==
  /\ SetBookmarks(merge(storage, NoBookmarks))
  /\ UNCHANGED <<feedVars, languages, keyVars, modalVars, toastVars>>

\* ----------------------------------------------------------- ToastProvider
\* A toast is kept as its id; the id of a toast (the time and a random
\* string) is taken to differ from every other toast's.
\* A removeToast that drops the oldest toast.
removeToastOldest(prev, id) == IF prev = <<>> THEN prev ELSE Tail(prev)

\* removeToast: prev.filter((t) => t.id !== id)
removeToast(prev, id) == Without(prev, id)

\* addToast: the toast is appended and its 3-second timer is set.
AddToast ==
  /\ toastSeq < MaxToasts
  /\ toastSeq' = toastSeq + 1
  /\ toasts' = Append(toasts, toastSeq + 1)
  /\ timers' = Append(timers, toastSeq + 1)
  /\ UNCHANGED <<feedVars, languages, keyVars, modalVars, markVars>>

\* The dismiss button of toast id: onRemove.
Dismiss(id) ==
  /\ id \in SetOf(toasts)
  /\ toasts' = removeToast(toasts, id)
  /\ UNCHANGED <<timers, toastSeq>>
  /\ UNCHANGED <<feedVars, languages, keyVars, modalVars, markVars>>

\* The oldest pending timer fires (all timers have the same delay).
TimerFires ==
  /\ timers # <<>>
  /\ toasts' = removeToast(toasts, Head(timers))
  /\ timers' = Tail(timers)
  /\ UNCHANGED toastSeq
  /\ UNCHANGED <<feedVars, languages, keyVars, modalVars, markVars>>

\* -------------------------------------------------------- fetchStarHistory
maxPages == 10
perPage == 100

\* Math.ceil(totalStars / perPage)
TotalPages(totalStars) == (totalStars + perPage - 1) \div perPage

\* The pages sampled when there are more than maxPages:
\* Math.floor(1 + i * step) for i = 0 .. maxPages - 1, step = totalPages / maxPages.
SampledPages(totalPages) ==
  [k \in 1 .. maxPages |-> 1 + ((k - 1) * totalPages) \div maxPages]
WithLastPage(pages, totalPages) ==
  IF totalPages \in SetOf(pages) THEN pages ELSE Append(pages, totalPages)

\* pagesToFetch
PagesToFetch(totalPages) ==
  IF totalPages <= maxPages
    THEN [k \in 1 .. totalPages |-> k]
    ELSE WithLastPage(SampledPages(totalPages), totalPages)

\* The pages the loop requests: all of pagesToFetch, or those up to the
\* first that is answered 403 (limitedAt is its place in the list, 0 when
\* none is).
PagesRequested(pages, limitedAt) ==
  IF limitedAt = 0 \/ limitedAt > Len(pages) THEN pages ELSE SubSeq(pages, 1, limitedAt)

StarCalc(totalStars, totalPages, limitedAt) ==
  [done |-> TRUE, kind |-> "stars", totalStars |-> totalStars,
   totalPages |-> totalPages, limitedAt |-> limitedAt,
   requested |-> PagesRequested(PagesToFetch(totalPages), limitedAt)]

\* The star counts the repository is reported with, and where the rate
\* limit strikes.
StarCounts == { 25 * n : n \in 0 .. MaxStarSteps }
LimitedAt == {0, 3}

\* fetchStarHistory is called for a repository with totalStars stars.
FetchStarHistory(totalStars, limitedAt) ==
  /\ calc' = StarCalc(totalStars, TotalPages(totalStars), limitedAt)
  /\ UNCHANGED uiVars
  /\ UNCHANGED <<route, tz, now, clockSteps, language, dateJump, queries, requests,
                 cancelled, issued, settled>>

\* ---------------------------------------- the stores and components at start
NoRepo == 0
UiInit ==
  /\ languages = <<>>
  /\ focusedIndex = 0
  /\ selectedRepo = NoRepo
  /\ mobileSheetOpen = FALSE
  /\ bodyOverflow = ""
  /\ activeTab = "readme"
  /\ showNoteInput = FALSE
  /\ noteText = <<>>
  /\ noteFocused = FALSE
  /\ effects = {}
  /\ toasts = <<>>
  /\ timers = <<>>
  /\ toastSeq = 0
  /\ bookmarks = <<>>
  /\ bookmarkedIds = <<>>
  /\ notes = <<>>
  /\ storage = partialize(NoBookmarks)

\* ---------------------------------- Feed, FilterBar, RepositoryModal: input
RECURSIVE Flatten(_)
\* allRepos: data.pages.flatMap((group) => group.repositories)
Flatten(pages) ==
  IF pages = <<>> THEN <<>>
  ELSE Flatten(SubSeq(pages, 1, Len(pages) - 1)) \o pages[Len(pages)].repositories
allRepos == Flatten(CurrentQuery.pages)
\* focusedRepo: allRepos[focusedIndex] || null
focusedRepo ==
  IF focusedIndex + 1 \in DOMAIN allRepos THEN allRepos[focusedIndex + 1] ELSE NoRepo

\* The body-scroll effects of BottomSheet and RepositoryModal, run in this
\* order after a render in which `open` or `repository` changed: each sets
\* the overflow for its own prop.
SheetEffect(body, open) ==
  IF open # mobileSheetOpen THEN (IF open THEN "hidden" ELSE "") ELSE body
ModalEffect(body, repository) ==
  IF repository # selectedRepo THEN (IF repository # NoRepo THEN "hidden" ELSE "")
                               ELSE body

\* The modal's effect that loads the note of a repository it is given.
NoteLoaded(repository) == repository # selectedRepo /\ repository # NoRepo
\* The note textarea is rendered: the modal shows a bookmarked repository
\* and its note input.
NoteShown(state, repository, show) ==
  repository # NoRepo /\ isBookmarked(state, repository) /\ show

\* The components after an event: the state the handlers set, then the
\* effects of the render that follows.
Rendered(index, repository, open, tab, show, text, focus, done, state) ==
  /\ focusedIndex' = index
  /\ selectedRepo' = repository
  /\ mobileSheetOpen' = open
  /\ bodyOverflow' = ModalEffect(SheetEffect(bodyOverflow, open), repository)
  /\ activeTab' = tab
  /\ showNoteInput' = IF NoteLoaded(repository) THEN getNote(state, repository) # <<>>
                                                 ELSE show
  /\ noteText' = IF NoteLoaded(repository) THEN getNote(state, repository) ELSE text
  /\ noteFocused' = (focus /\ NoteShown(state, repository, showNoteInput'))
  /\ effects' = done
  /\ SetBookmarks(state)
  /\ UNCHANGED <<feedVars, languages>>

\* e.key.toLowerCase()
KeyNames == {"j", "k", "o", "s", "q", "h", "l", "c", "a", " ", "Escape", "Backspace"}
toLowerCase(key) ==
  IF key = "Escape" THEN "escape" ELSE IF key = "Backspace" THEN "backspace" ELSE key

\* Which of the keydown listeners on the document act on an event.  The
\* feed's (useKeyboardShortcuts) returns when the target is an input or a
\* textarea and when it is disabled, which it is while a repository is
\* selected; the modal's is registered while a repository is selected; the
\* sheet's while the sheet is open.
FeedHears == ~noteFocused /\ selectedRepo = NoRepo
ModalHears == selectedRepo # NoRepo
\* The keys the modal's switch has a case for that can match a lower-cased
\* key, and the cases 'G' and 'Escape', which are compared with the
\* lower-cased key as well.
ModalScrollKeys == {"j", "k", "d", "u", "g", "G"}
ModalCloseKeys == {"q", "Escape"}
ModalKeys == ModalScrollKeys \cup ModalCloseKeys \cup {"h", "l", "o", "s", "c"}

\* The feed's handlers.
onNavigateDown(i) == Min(Len(allRepos) - 1, i + 1)
onNavigateUp(i) == Max(0, i - 1)
KeyFocusedIndex(k) ==
  IF FeedHears /\ k = "j" THEN onNavigateDown(focusedIndex)
  ELSE IF FeedHears /\ k = "k" THEN onNavigateUp(focusedIndex)
  ELSE focusedIndex

\* onOpen and onEscape of the feed, onClose of the modal.
KeySelectedRepo(k, key) ==
  IF FeedHears /\ k \in {"o", "enter"} /\ focusedRepo # NoRepo THEN focusedRepo
  ELSE IF FeedHears /\ k = "escape" THEN NoRepo
  ELSE IF ModalHears /\ k \in ModalCloseKeys THEN NoRepo
  ELSE selectedRepo

\* The sheet's handleEscape compares the key as it was pressed.
KeySheetOpen(key) == mobileSheetOpen /\ key # "Escape"

KeyActiveTab(k) ==
  IF ModalHears /\ k = "h" THEN "readme"
  ELSE IF ModalHears /\ k = "l" THEN "info"
  ELSE activeTab

KeyEffects(k) ==
  IF ModalHears /\ k = "o" THEN effects \cup {"window.open"}
  ELSE IF ModalHears /\ k = "c" THEN effects \cup {"clipboard"}
  ELSE effects

\* The text of the textarea after a key the listeners did not prevent.
TextKeys == {"a", " ", "Backspace"}
Edited(text, key) ==
  IF key = "Backspace" THEN SubSeq(text, 1, Len(text) - 1) ELSE Append(text, key)
NoteLimit == 500
\* e.target.value.slice(0, 500)
Sliced(value) == SubSeq(value, 1, Min(NoteLimit, Len(value)))
\* The textarea's change event follows the keydown: the focus is in the
\* textarea, the key edits text and no listener called preventDefault.
Edits(k, key) ==
  /\ noteFocused
  /\ key \in TextKeys
  /\ ~(ModalHears /\ k \in ModalKeys)
KeyNoteText(k, key) ==
  IF Edits(k, key) THEN Sliced(Edited(noteText, key)) ELSE noteText

\* onBookmark of the feed, the modal's 's', and the textarea's onChange.
KeyBookmarks(k, key) ==
  IF FeedHears /\ k = "s" /\ focusedRepo # NoRepo
    THEN toggleBookmark(Bookmarks, focusedRepo)
  ELSE IF ModalHears /\ k = "s" THEN toggleBookmark(Bookmarks, selectedRepo)
  ELSE IF Edits(k, key) THEN setNote(Bookmarks, selectedRepo, KeyNoteText(k, key))
  ELSE Bookmarks

\* toast.success of the modal's 'c'.
KeyToasts(k) ==
  IF ModalHears /\ k = "c"
    THEN /\ toastSeq < MaxToasts
         /\ toastSeq' = toastSeq + 1
         /\ toasts' = Append(toasts, toastSeq + 1)
         /\ timers' = Append(timers, toastSeq + 1)
    ELSE UNCHANGED toastVars

\* A key is pressed: every keydown listener on the document is called, then
\* the textarea takes the key.
KeyPressed(k, key) ==
  /\ Edits(k, key) /\ key # "Backspace" => Len(noteText) < MaxNoteLength
  /\ KeyToasts(k)
  /\ Rendered(KeyFocusedIndex(k), KeySelectedRepo(k, key), KeySheetOpen(key),
              KeyActiveTab(k), showNoteInput, KeyNoteText(k, key), noteFocused,
              KeyEffects(k), KeyBookmarks(k, key))
KeyDown(key) == KeyPressed(toLowerCase(key), key)

\* A card of the feed is clicked: onSelectRepo.  The modal's backdrop
\* covers the cards while a repository is selected.
ClickCard(i) ==
  /\ route = "/"
  /\ selectedRepo = NoRepo /\ ~mobileSheetOpen
  /\ i \in DOMAIN allRepos
  /\ Rendered(focusedIndex, allRepos[i], mobileSheetOpen, activeTab, showNoteInput,
              noteText, FALSE, effects, Bookmarks)
  /\ UNCHANGED toastVars

\* The bookmark button of a card, or of the modal for the repository shown.
ClickBookmark(repo) ==
  /\ route = "/"
  /\ ~mobileSheetOpen
  /\ IF selectedRepo = NoRepo THEN repo \in SetOf(allRepos) ELSE repo = selectedRepo
  /\ Rendered(focusedIndex, selectedRepo, mobileSheetOpen, activeTab, showNoteInput,
              noteText, FALSE, effects, toggleBookmark(Bookmarks, repo))
  /\ UNCHANGED toastVars

\* The modal's close button or backdrop: onClose.
CloseModal ==
  /\ selectedRepo # NoRepo
  /\ Rendered(focusedIndex, NoRepo, mobileSheetOpen, activeTab, showNoteInput,
              noteText, FALSE, effects, Bookmarks)
  /\ UNCHANGED toastVars

\* 'Add a note' of the modal.
AddNote ==
  /\ NoteShown(Bookmarks, selectedRepo, ~showNoteInput)
  /\ Rendered(focusedIndex, selectedRepo, mobileSheetOpen, activeTab, TRUE,
              noteText, FALSE, effects, Bookmarks)
  /\ UNCHANGED toastVars

\* The note textarea is clicked into, or left.
FocusNote(focus) ==
  /\ NoteShown(Bookmarks, selectedRepo, showNoteInput)
  /\ focus # noteFocused
  /\ Rendered(focusedIndex, selectedRepo, mobileSheetOpen, activeTab, showNoteInput,
              noteText, focus, effects, Bookmarks)
  /\ UNCHANGED toastVars

\* A mobile filter button opens the sheet; its backdrop or close button
\* closes it.  The modal's backdrop covers the filter bar.
OpenSheet ==
  /\ route = "/"
  /\ selectedRepo = NoRepo /\ ~mobileSheetOpen
  /\ Rendered(focusedIndex, selectedRepo, TRUE, activeTab, showNoteInput,
              noteText, FALSE, effects, Bookmarks)
  /\ UNCHANGED toastVars
CloseSheet ==
  /\ mobileSheetOpen
  /\ Rendered(focusedIndex, selectedRepo, FALSE, activeTab, showNoteInput,
              noteText, FALSE, effects, Bookmarks)
  /\ UNCHANGED toastVars

\* The remove button of the bookmarks page, the feed being left for that
\* page and come back to: the feed and the modal are mounted anew.
RemoveOnBookmarksPage(repoId) ==
  /\ selectedRepo = NoRepo /\ ~mobileSheetOpen
  /\ repoId \in SetOf(bookmarkedIds)
  /\ Rendered(0, NoRepo, FALSE, "readme", FALSE, <<>>, FALSE, effects,
              removeBookmark(Bookmarks, repoId))
  /\ UNCHANGED toastVars

\* The feed is mounted with the default preferences: the query of the
\* current key starts its first fetch.
Init ==
  /\ UiInit
  /\ route = "/"
  /\ tz \in TimeZones
  /\ now = Moments[1]
  /\ clockSteps = 1
  /\ language = ""
  /\ dateJump = "week"
  /\ queries = [k \in Keys |->
                  IF k = queryKey("", "week") THEN Fetching(EmptyQuery, "all")
                                              ELSE EmptyQuery]
  /\ requests = {queryFnCall(queryKey("", "week"), "", "week", 0, now, tz)}
  /\ cancelled = {}
  /\ issued = 1
  /\ settled = NoKey
  /\ calc = NoCalc

Next ==
  \/ \E l \in Languages : SetLanguage(l)
  \/ \E d \in FeedDateJumps : SetDateJump(d)
  \/ Intersect
  \/ HandleRetry
  \/ \E r \in requests, items \in FeedItemLists : FetchSucceed(r, items)
  \/ \E r \in requests, e \in FeedErrors : FetchFail(r, e[1], e[2])
  \/ \E c \in cancelled : AbandonedSettle(c)
  \/ AdvanceClock

Spec == Init /\ [][Next]_vars

\* The session with the router: the feed and the RSS page are visited in turn.
NextRoutes ==
  \/ Next
  \/ \E to \in Routes : Navigate(to)

SpecRoutes == Init /\ [][NextRoutes]_vars

\* The feed scrolled under one key, the upstream answering with or without
\* repositories.
NextScroll ==
  \/ Intersect
  \/ HandleRetry
  \/ \E r \in requests, items \in ItemLists : FetchSucceed(r, items)
  \/ \E r \in requests, e \in FeedErrors : FetchFail(r, e[1], e[2])
  \/ \E c \in cancelled : AbandonedSettle(c)

SpecScroll == Init /\ [][NextScroll]_vars

\* ------------------------------------------- the pure functions on their own
\* The feed before it is mounted: nothing fetched, nothing in flight.
Unmounted ==
  /\ UiInit
  /\ route = "/"
  /\ clockSteps = Len(Moments)
  /\ language = ""
  /\ dateJump = "week"
  /\ queries = [k \in Keys |-> EmptyQuery]
  /\ requests = {}
  /\ cancelled = {}
  /\ issued = 0
  /\ settled = NoKey

\* The moments and the time zones getDateRange is computed at: the first, a
\* middle and the last millisecond (UTC) of month ends, of the days around
\* them and of a day in the middle of a month.
WindowTimeZones == {-300, 0, 180}
WindowDays ==
  { Midnight(2024, 1, 31), Midnight(2024, 2, 29), Midnight(2024, 3, 1),
    Midnight(2024, 3, 31), Midnight(2024, 5, 15), Midnight(2024, 7, 31),
    Midnight(2024, 12, 31) }
WindowNows ==
  { PlusMs(d, ms) : d \in WindowDays, ms \in {0, 12 * 60 * MsPerMinute, MsPerDay - 1} }

InitWindow ==
  /\ tz \in WindowTimeZones
  /\ now \in WindowNows
  /\ Unmounted
  /\ calc = NoCalc

\* getDateRange(d, n) is called.
WindowCalc(d, n, range) ==
  [done |-> TRUE, kind |-> "window", dateJump |-> d, offset |-> n,
   range |-> range, label |-> formatDateRangeLabel(range, d, tz)]
ComputeWindow(d, n) ==
  /\ calc' = WindowCalc(d, n, getDateRange(d, n, now, tz))
  /\ UNCHANGED uiVars
  /\ UNCHANGED <<route, tz, now, clockSteps, language, dateJump, queries, requests,
                 cancelled, issued, settled>>

NextWindow == \E d \in DateJumps, n \in 0 .. MaxOffset : ComputeWindow(d, n)

SpecWindow == InitWindow /\ [][NextWindow]_vars

\* The responses fetchRepositories is called on.
Responses ==
  { OkResponse(items) : items \in ItemLists }
    \cup { ErrorResponse(status, body) : status \in ErrorStatuses, body \in ErrorBodies }

InitFetch ==
  /\ tz = 0
  /\ now = Moments[1]
  /\ Unmounted
  /\ calc \in { [done |-> FALSE, kind |-> "fetch", response |-> r] : r \in Responses }

\* fetchRepositories is awaited on the response.
CallFetch ==
  /\ calc.kind = "fetch"
  /\ ~calc.done
  /\ calc' = [done |-> TRUE, kind |-> "fetch", response |-> calc.response,
              out |-> fetchRepositories(calc.response)]
  /\ UNCHANGED uiVars
  /\ UNCHANGED <<route, tz, now, clockSteps, language, dateJump, queries, requests,
                 cancelled, issued, settled>>

SpecFetch == InitFetch /\ [][CallFetch]_vars

\* ------------------------------------------- the stores and the components
\* The stores before any component is mounted.
InitStores ==
  /\ tz \in TimeZones
  /\ now = Moments[1]
  /\ Unmounted
  /\ calc = NoCalc

\* The bookmarks store called in any order, and the page loaded again.
NextBookmarks ==
  \/ \E r \in StoreRepos : AddBookmark(r)
  \/ \E r \in StoreRepos : RemoveBookmark(r)
  \/ \E r \in StoreRepos : ToggleBookmark(r)
  \/ Rehydrate

SpecBookmarks == InitStores /\ [][NextBookmarks]_vars

\* The language list of the preferences, changed in any order.
NextLanguages ==
  \/ \E list \in LanguageLists : SetLanguages(list)
  \/ \E l \in LanguageNames : ToggleLanguage(l)
  \/ ClearLanguages

SpecLanguages == InitStores /\ [][NextLanguages]_vars

\* The feed is scrolled and driven from the keyboard, with the preview modal
\* and the mobile sheet.
NavigationKeys == {"j", "k", "o", "q", "h", "l", "c", "Escape"}
NextKeyboard ==
  \/ Intersect
  \/ \E r \in requests, items \in FeedItemLists : FetchSucceed(r, items)
  \/ \E key \in NavigationKeys : KeyDown(key)
  \/ \E i \in 1 .. 2 * MaxRequests : ClickCard(i)
  \/ CloseModal
  \/ OpenSheet
  \/ CloseSheet

SpecKeyboard == Init /\ [][NextKeyboard]_vars

\* The first page of the feed is loaded; repositories are bookmarked and
\* their notes written in the modal.
NoteKeys == {"s", "q", "h", "l", "o", "a", " ", "Escape", "Backspace"}
NextNotes ==
  \/ \E r \in requests, items \in FeedItemLists : FetchSucceed(r, items)
  \/ \E key \in NoteKeys : KeyDown(key)
  \/ \E i \in 1 .. 2 : ClickCard(i)
  \/ \E repo \in 1 .. 2 : ClickBookmark(repo)
  \/ CloseModal
  \/ AddNote
  \/ \E focus \in BOOLEAN : FocusNote(focus)
  \/ \E repo \in 1 .. 2 : RemoveOnBookmarksPage(repo)

SpecNotes == Init /\ [][NextNotes]_vars

\* The star history is fetched for one repository after another.
NextStars ==
  \E totalStars \in StarCounts, limitedAt \in LimitedAt :
    FetchStarHistory(totalStars, limitedAt)

SpecStars == InitStores /\ [][NextStars]_vars

\* Toasts are added and dismissed and their timers fire; a timer that was set
\* fires in the end (the event loop runs it).
NextToasts ==
  \/ AddToast
  \/ \E id \in 1 .. MaxToasts : Dismiss(id)
  \/ TimerFires

SpecToasts == InitStores /\ [][NextToasts]_vars /\ WF_vars(TimerFires)

\* ------------------------------------------------------------- the claims

\* C1: for the week and the month cadence and every offset N >= 1, the end of
\* window N is the same instant as the start of window N-1.
C1_WindowsTile ==
  (calc.done /\ calc.kind = "window" /\ calc.dateJump \in {"week", "month"}
     /\ calc.offset >= 1)
    => calc.range.end = getDateRange(calc.dateJump, calc.offset - 1, now, tz).start

\* C8: on a non-success status fetchRepositories throws, with the body's
\* message when the body has a non-empty one and with
\* "GitHub API error: <status>" when the body has no message, an empty one or
\* cannot be parsed; it returns no response.
C8_ErrorMessage ==
  (calc.done /\ calc.kind = "fetch" /\ ~ResponseOk(calc.response))
    => LET body == calc.response.body
           hasMessage == body.kind = "json" /\ body.message \notin {NoMessage, ""}
       IN /\ calc.out.threw
          /\ calc.out.items = <<>>
          /\ hasMessage => calc.out.message = <<body.message>>
          /\ ~hasMessage => calc.out.message = <<"GitHub API error: ", calc.response.status>>

C8_Witness ==
  /\ calc.done /\ calc.kind = "fetch"
  /\ calc.response.status = 422
  /\ calc.response.body = [kind |-> "json", message |-> "Validation Failed"]
  /\ calc.out.message = <<"Validation Failed">>

\* A step makes an upstream call for key k.  Every step makes at most one
\* call; a call that replaces an abandoned call with the same parameters
\* leaves `requests` as it was, and is made for the key then selected.
CallMadeFor(k) ==
  /\ issued' = issued + 1
  /\ IF requests' \ requests # {}
       THEN \E r \in requests' \ requests : r.key = k
       ELSE k = CurrentKey'

\* The instants a group records as its window.
GroupStart(g) == ParseISO(g.start)
GroupEnd(g) == ParseISO(g.end)

\* C2: every group in the list of the selected key was fetched with the
\* language and the cadence of that key, also when a fetch for the key
\* selected before resolves after the switch.
C2_NoGroupOfAnotherKey ==
  \A i \in 1 .. Len(CurrentQuery.pages) :
    /\ CurrentQuery.log[i].language = language
    /\ CurrentQuery.log[i].dateJump = dateJump
    /\ CurrentQuery.pages[i].start =
         toISOString(getDateRange(dateJump, CurrentQuery.log[i].offset,
                                  CurrentQuery.log[i].at, tz).start)

\* The fetch of a key selected before has just resolved, after the switch,
\* and the key selected now shows groups of its own.
C2_Witness ==
  /\ settled # NoKey
  /\ settled # CurrentKey
  /\ HasData(queries[settled])
  /\ HasData(CurrentQuery)

\* C3: the groups of one key have pairwise distinct (start, end) keys, and a
\* group further down the list has a window strictly further back in time,
\* whenever the pages were fetched.
C3_DistinctReceding ==
  \A k \in Keys : \A i, j \in 1 .. Len(queries[k].pages) :
    i < j =>
      /\ <<queries[k].pages[i].start, queries[k].pages[i].end>>
           # <<queries[k].pages[j].start, queries[k].pages[j].end>>
      /\ Before(GroupStart(queries[k].pages[j]), GroupStart(queries[k].pages[i]))
      /\ Before(GroupEnd(queries[k].pages[j]), GroupEnd(queries[k].pages[i]))

\* C4: in every reachable state at most one upstream page request of a
\* filter key is in flight, so no second page fetch of a key is started
\* while one is outstanding.
C4_OneInFlight == \A k \in Keys : InFlight(k) <= 1

\* C5: the i-th group of a list (0-based) was requested with offset i,
\* carries the window computed for offset i when it was requested, and holds
\* the upstream's items unchanged and in the upstream's order.
C5_GroupPerOffset ==
  \A k \in Keys : \A i \in 1 .. Len(queries[k].pages) :
    LET g == queries[k].pages[i]
        e == queries[k].log[i]
        w == getDateRange(e.dateJump, i - 1, e.at, tz)
    IN /\ e.offset = i - 1
       /\ GroupStart(g) = w.start
       /\ GroupEnd(g) = w.end
       /\ g.repositories = e.items

\* Two next-page fetches in a row have succeeded, the second with items.
C5_Witness ==
  /\ Len(CurrentQuery.pages) >= 3
  /\ CurrentQuery.pages[3].repositories = <<2, 1>>

\* C6: after a fetch has failed, no upstream call is made for that key until
\* the retry control is pressed (the filter staying as it is).
C6_NoAutomaticRetry ==
  [][ \A k \in Keys :
        (isError(queries[k]) /\ ~IsFetching(queries[k])
           /\ language' = language /\ dateJump' = dateJump /\ ~HandleRetry)
          => ~CallMadeFor(k) ]_vars

\* C7: the manual retry after a failed fetch of offset N asks for offset N
\* and for no other offset, and leaves the groups fetched before as they were.
C7_RetrySameOffset ==
  [][ HandleRetry =>
        /\ \A r \in requests' :
             r.key = CurrentKey => r.offset = CurrentQuery.failedOffset
        /\ CurrentQuery'.pages = CurrentQuery.pages ]_vars

\* C9: a fetch that fails leaves the group list of its key exactly as it was
\* when the fetch started, and a next-page fetch that succeeds adds exactly
\* one complete group to it.
C9_AllOrNothing ==
  [][ \A k \in Keys :
        (IsFetching(queries[k]) /\ ~IsFetching(queries'[k]))
          => \/ /\ isError(queries'[k])
                /\ queries'[k].pages = queries[k].fetch.before
             \/ /\ ~isError(queries'[k])
                /\ isFetchingNextPage(queries[k])
                     => /\ Len(queries'[k].pages) = Len(queries[k].fetch.before) + 1
                        /\ SubSeq(queries'[k].pages, 1, Len(queries[k].fetch.before))
                             = queries[k].fetch.before
                        /\ DOMAIN queries'[k].pages[Len(queries'[k].pages)]
                             = {"start", "end", "repositories"} ]_vars

\* A next-page fetch has failed and the groups fetched before are held.
C9_Witness ==
  /\ isError(CurrentQuery)
  /\ ~IsFetching(CurrentQuery)
  /\ CurrentQuery.failedOffset >= 1
  /\ Len(CurrentQuery.pages) = CurrentQuery.failedOffset

\* C10: a group in the list of the selected key keeps its start, its end and
\* its repositories for as long as the key stays selected.
C10_GroupsImmutable ==
  [][ (language' = language /\ dateJump' = dateJump)
        => \A i \in 1 .. Len(CurrentQuery.pages) :
             /\ Len(CurrentQuery'.pages) >= i
             /\ CurrentQuery'.pages[i] = CurrentQuery.pages[i] ]_vars

\* A step makes an upstream call for offset o of key k.
CallMade(k, o) ==
  /\ issued' = issued + 1
  /\ IF requests' \ requests # {}
       THEN \E r \in requests' \ requests : r.key = k /\ r.offset = o
       ELSE k = CurrentKey' /\ \E r \in requests' : r.key = k /\ r.offset = o

C12_FreshNotRefetched ==
  [][ /\ \A k \in Keys : \A i \in 1 .. Len(queries[k].pages) :
             Before(now, PlusMs(queries[k].log[i].doneAt, staleTime))
               => ~CallMade(k, i - 1)
      /\ route' # route => CurrentQuery'.pages = CurrentQuery.pages ]_vars

\* The calls of getDateRange the session has made: the cadence, the offset
\* and the window of every upstream call awaited and of every page held.
WindowCalls ==
  { [dateJump |-> r.dateJump, offset |-> r.offset, dateRange |-> r.dateRange] :
      r \in requests }
    \cup UNION { { [dateJump |-> queries[k].log[i].dateJump,
                    offset |-> queries[k].log[i].offset,
                    dateRange |-> queries[k].log[i].dateRange] :
                     i \in 1 .. Len(queries[k].log) } : k \in Keys }

\* C13: two calls of getDateRange with the same cadence and the same offset
\* return the same window, whenever in the session they are made.
C13_WindowOfCadenceAndOffset ==
  \A a, b \in WindowCalls :
    (a.dateJump = b.dateJump /\ a.offset = b.offset) => a.dateRange = b.dateRange

\* A created: timestamp read as UTC, and an instant cut to the second.
ReadAsUTC(stamp) ==
  [day |-> DayNum(stamp[1], stamp[2], stamp[3]),
   ms  |-> ((stamp[4] * 60 + stamp[5]) * 60 + stamp[6]) * 1000]
ToSecond(t) == [day |-> t.day, ms |-> t.ms - (t.ms % 1000)]

\* C14: the two timestamps of the created: fragment of every upstream call,
\* read as UTC, are the start and the end of the window computed for the
\* call, to the second: the instants the group records as start and end.
C14_CreatedFragmentIsUTC ==
  \A r \in requests :
    LET q == r.params.q
        group == queryFnResult(r.dateRange, <<>>)
    IN /\ ReadAsUTC(q[Len(q) - 2]) = ToSecond(GroupStart(group))
       /\ ReadAsUTC(q[Len(q)]) = ToSecond(GroupEnd(group))

\* Milliseconds from instant a to instant b.
MsBetween(a, b) == (b.day - a.day) * MsPerDay + (b.ms - a.ms)

\* C15: for the week cadence and every offset, the window is exactly 7 days
\* wide.
C15_WeekIsSevenDays ==
  (calc.done /\ calc.kind = "window" /\ calc.dateJump = "week")
    => MsBetween(calc.range.start, calc.range.end) = 7 * MsPerDay

\* C16: for the day cadence and every offset N, the window runs from the
\* start to the end of the local calendar day N days before now, and the
\* window of offset N + 1 is the calendar day before it and ends before the
\* window of offset N starts.
C16_DayIsOneCalendarDay ==
  (calc.done /\ calc.kind = "window" /\ calc.dateJump = "day")
    => LET day   == LocalFields(subDays(now, calc.offset, tz), tz)
           first == LocalFields(calc.range.start, tz)
           last  == LocalFields(calc.range.end, tz)
           older == getDateRange("day", calc.offset + 1, now, tz)
       IN /\ first = [day EXCEPT !.ms = 0]
          /\ last = [day EXCEPT !.ms = MsPerDay - 1]
          /\ Before(older.end, calc.range.start)
          /\ PlusMs(older.end, 1) = calc.range.start
          /\ MsBetween(older.start, calc.range.start) = MsPerDay

\* The day window of an offset that lies in the month before now's.
C16_Witness ==
  /\ calc.done /\ calc.kind = "window" /\ calc.dateJump = "day"
  /\ calc.offset >= 1
  /\ LocalFields(calc.range.start, tz).m # LocalFields(now, tz).m

\* C17: for every cadence, every offset and every now, the window's start
\* is not after its end.
C17_StartNotAfterEnd ==
  (calc.done /\ calc.kind = "window")
    => AtOrBefore(calc.range.start, calc.range.end)

\* A month window computed on the 31st, whose start was clamped to the last
\* day of a shorter month.
C17_Witness ==
  /\ calc.done /\ calc.kind = "window" /\ calc.dateJump = "month"
  /\ LocalFields(now, tz).d = 31
  /\ LocalFields(calc.range.start, tz).d < 31

\* The parameters of the upstream calls of query k: those awaited and those
\* that produced the groups it holds or has collected.
ParamsSent(k) ==
  { <<r.params, r.dateRange>> : r \in { x \in requests : x.key = k } }
    \cup { <<queries[k].log[i].params, queries[k].log[i].dateRange>> :
             i \in 1 .. Len(queries[k].log) }
    \cup { <<queries[k].fetch.accLog[i].params, queries[k].fetch.accLog[i].dateRange>> :
             i \in 1 .. Len(queries[k].fetch.accLog) }

\* C18: every upstream call carries exactly q, sort=stars, order=desc and
\* per_page=25, and no page parameter; q is 'language:<L> ' followed by the
\* created: fragment of the call's window when the key has a language and
\* the fragment alone when it has none.  Every group held or collected comes
\* from one call of its own, and every step issues at most one call.
C18_SearchParameters ==
  \A k \in Keys :
    /\ \A c \in ParamsSent(k) :
         /\ DOMAIN c[1] = {"q", "sort", "order", "per_page"}
         /\ c[1].sort = "stars" /\ c[1].order = "desc" /\ c[1].per_page = "25"
         /\ k[1] # "" => SubSeq(c[1].q, 1, 3) = <<"language:", k[1], " ">>
         /\ SubSeq(c[1].q, Len(c[1].q) - 3, Len(c[1].q)) = formatDateRange(c[2], tz)
         /\ Len(c[1].q) = IF k[1] # "" THEN 7 ELSE 4
    /\ Len(queries[k].log) = Len(queries[k].pages)
    /\ Len(queries[k].fetch.accLog) = Len(queries[k].fetch.acc)
    /\ Cardinality({ r \in requests : r.key = k }) <= 1

\* A second window of a key with a language is being requested while a key
\* without a language holds a group.
C18_Witness ==
  /\ \E r \in requests : r.key[1] = "Rust" /\ r.offset = 1
  /\ \E k \in Keys : k[1] = "" /\ HasData(queries[k])

\* C19: a query that holds pages, whatever their repositories, has a next
\* page and its parameter is the number of pages held; whenever the sentinel
\* is reported visible and no next page is being fetched, the next page is
\* requested at that offset.
C19_AlwaysANextPage ==
  [][ /\ \A k \in Keys :
           HasData(queries'[k])
             => /\ hasNextPage(queries'[k])
                /\ getNextPageParam(queries'[k].pages) = Len(queries'[k].pages)
      /\ (HasData(CurrentQuery') /\ ~isFetchingNextPage(CurrentQuery'))
           => ShouldFetchNext(CurrentQuery')
      /\ Intersect => CallMade(CurrentKey, Len(CurrentQuery.pages)) ]_vars

\* The last page held has no repositories and the page after it is being
\* fetched.
C19_Witness ==
  /\ HasData(CurrentQuery)
  /\ CurrentQuery.pages[Len(CurrentQuery.pages)].repositories = <<>>
  /\ isFetchingNextPage(CurrentQuery)
  /\ \E r \in requests : r.key = CurrentKey /\ r.offset = Len(CurrentQuery.pages)

\* C20: every header the feed renders is the label of its group's window in
\* the branch of the cadence the window was computed under: the one-date
\* form for a day window, the two-date form for the others.
C20_LabelOfOwnCadence ==
  \A i \in 1 .. Len(CurrentQuery.pages) :
    GroupHeaders[i] # NoHeader
      => /\ (GroupHeaders[i][1].pattern = "MMMM d, yyyy") <=> (CurrentQuery.log[i].dateJump = "day")
         /\ GroupHeaders[i]
              = formatDateRangeLabel(CurrentQuery.log[i].dateRange,
                                     CurrentQuery.log[i].dateJump, tz)

\* The feed shows the groups of one cadence while the query of the other
\* cadence, selected before, holds groups of its own.
C20_Witness ==
  /\ route = "/"
  /\ HasData(CurrentQuery)
  /\ GroupHeaders[1] # NoHeader
  /\ \E d \in FeedDateJumps :
       d # dateJump /\ HasData(queries[queryKey(language, d)])

\* C27: bookmarkedIds is exactly the set of the ids of the repositories in
\* bookmarks, in the store and in what persist wrote, and bookmarks holds no
\* id twice.
C27_BookmarksAndIdsAgree ==
  /\ SetOf(bookmarkedIds) = SetOf(bookmarks)
  /\ SetOf(storage.bookmarkedIds) = SetOf(storage.bookmarks)
  /\ Cardinality(SetOf(bookmarks)) = Len(bookmarks)

\* How many parts of a label have one of `patterns`.
CountIn(label, patterns) ==
  Cardinality({ i \in DOMAIN label : label[i].pattern \in patterns })
DatePatterns == {"MMMM d, yyyy", "MMM d", "MMM d, yyyy"}

\* C21: the label of a day window is one date without a range separator, the
\* label of a week or month window is two dates joined by one range
\* separator.
C21_LabelShape ==
  (calc.done /\ calc.kind = "window")
    => IF calc.dateJump = "day"
         THEN /\ CountIn(calc.label, DatePatterns) = 1
              /\ CountIn(calc.label, {" - "}) = 0
         ELSE /\ CountIn(calc.label, DatePatterns) = 2
              /\ CountIn(calc.label, {" - "}) = 1
              /\ calc.label[2] = RangeSeparator

\* The label of a month window whose two dates lie in different months.
C21_Witness ==
  /\ calc.done /\ calc.kind = "window" /\ calc.dateJump = "month"
  /\ calc.label[1].m # calc.label[3].m

\* C23: the languages list never has more than 5 entries; toggleLanguage of
\* a language that is not in a list of 5 leaves the list as it is, and
\* toggleLanguage of a language of the list leaves the list without it, the
\* others in their order.
C23_AtMostFiveLanguages ==
  [][ /\ Len(languages') <= 5
      /\ \A l \in LanguageNames :
           ToggleLanguage(l)
             => /\ (l \notin SetOf(languages) /\ Len(languages) = 5)
                     => languages' = languages
                /\ l \in SetOf(languages)
                     => /\ l \notin SetOf(languages')
                        /\ languages' = SelectSeq(languages, LAMBDA x : x # l) ]_vars

\* A list of 5 languages.
C23_Witness == Len(languages) = 5 /\ Cardinality(SetOf(languages)) = 5

\* C25: when the timer of a toast fires the toast is no longer in the list,
\* a dismissal or an expiry takes exactly its own toast out of the list and
\* leaves the others in their order, and the list is empty in the end.
C25_ToastsExpire ==
  /\ [][ /\ TimerFires
             => /\ Head(timers) \notin SetOf(toasts')
                /\ toasts' = SelectSeq(toasts, LAMBDA t : t # Head(timers))
          /\ \A id \in 1 .. MaxToasts :
               Dismiss(id) => toasts' = SelectSeq(toasts, LAMBDA t : t # id) ]_vars
  /\ <>[](toasts = <<>>)

\* Two toasts are shown while the timer of a dismissed, older toast is
\* still pending.
C25_Witness ==
  /\ Len(toasts) >= 2
  /\ timers # <<>>
  /\ Head(timers) \notin SetOf(toasts)

\* C26: the stargazer pages fetchStarHistory requests are at most maxPages,
\* all distinct and all within 1 .. totalPages, and the last page is among
\* them whenever there is a page and no request was turned away.
C26_AtMostMaxPages ==
  (calc.done /\ calc.kind = "stars")
    => /\ Len(calc.requested) <= maxPages
       /\ Cardinality(SetOf(calc.requested)) = Len(calc.requested)
       /\ SetOf(calc.requested) \subseteq 1 .. calc.totalPages
       /\ (calc.totalPages > 0 /\ calc.limitedAt = 0)
            => calc.totalPages \in SetOf(calc.requested)

\* C22: pressing Escape while the preview modal shows a repository closes
\* the modal: the selected repository becomes null.
C22_EscapeClosesModal ==
  [][ (selectedRepo # NoRepo /\ KeyDown("Escape")) => selectedRepo' = NoRepo ]_vars

\* C24: the body's overflow is hidden exactly when the preview modal or the
\* mobile sheet is open.
C24_BodyScrollLocked ==
  (bodyOverflow = "hidden") <=> (selectedRepo # NoRepo \/ mobileSheetOpen)

\* C29: the focus index is at least 0 and at most the index of the last
\* repository loaded, 0 while none is loaded.
C29_FocusInRange ==
  /\ 0 <= focusedIndex
  /\ focusedIndex <= Max(0, Len(allRepos) - 1)

\* C30: a key pressed while the note textarea has the focus leaves the
\* bookmarks, the modal, its tab, the clipboard and the browser's windows as
\* they are.
C30_NoteKeysOnlyEdit ==
  [][ \A key \in KeyNames :
        (noteFocused /\ KeyDown(key))
          => /\ bookmarks' = bookmarks /\ bookmarkedIds' = bookmarkedIds
             /\ selectedRepo' = selectedRepo
             /\ activeTab' = activeTab
             /\ effects' = effects ]_vars

\* C28: every repository with a stored note is bookmarked and no stored
\* note is empty once trimmed; a step that takes a repository out of the
\* bookmarks deletes its note and no other, and a step that writes a note
\* writes it for a bookmarked repository.
C28_NotesOfBookmarksOnly ==
  [][ /\ MapKeys(notes') \subseteq SetOf(bookmarkedIds')
      /\ \A e \in SetOf(notes') : trim(e[2]) # <<>>
      /\ \A id \in SetOf(bookmarkedIds) \ SetOf(bookmarkedIds') :
           notes' = SelectSeq(notes, LAMBDA e : e[1] # id)
      /\ \A e \in SetOf(notes') \ SetOf(notes) :
           e[1] \in SetOf(bookmarkedIds) ]_vars

\* One bookmarked repository has a note that ends in a space, the other
\* bookmarked repository has none.
C28_Witness ==
  /\ Len(bookmarkedIds) = 2
  /\ Len(notes) = 1
  /\ notes[1][2] = <<"a", " ">>

====
